---------------------------- MODULE Spec2Model ----------------------------
(***************************************************************************)
(* Generalised Monty Hall simulator (src/index.tsx): the App component     *)
(* holding the configuration, and the Simulator component holding the      *)
(* manual game and the batch ("auto") simulator.                           *)
(*                                                                         *)
(* Door indices are 0-based as in the source.  A text is a sequence of     *)
(* one-character strings.  Math.random() is a nondeterministic choice.     *)
(***************************************************************************)
EXTENDS Integers, Sequences, FiniteSets

VARIABLES
    config,            \* App: useState<SimulatorConfig>
    tempConfig,        \* App: the two text inputs
    error,             \* App: validation error kind ("" when none)
    doors,             \* Simulator: DoorState[] of the manual game
    gameState,         \* Simulator: 'initial' | 'picked' | 'revealed' | 'finished'
    message,           \* Simulator: message kind shown under the doors
    manualStats,       \* Simulator: {stayWins, switchWins, total}
    hostTimer,         \* pending setTimeout callbacks of the mounted Simulator
    hostUpdates,       \* Simulator: updates a host callback queued, not yet rendered
    pickedIndex,       \* the door of the first click of the game played (history)
    mountEffect,       \* Simulator: the mount effect: "scheduled", "flushing" (it
                       \* has run, its updates are not yet rendered) or "done"
    simulations,       \* Simulator: number of trials of the next run
    speed,             \* Simulator: speed slider
    isSimulating,      \* Simulator: useState(false), the value last set
    renderedSimulating, \* Simulator: isSimulating as last rendered (the controls shown)
    progress,          \* Simulator: percentage, the double (num / den) * scale
    stayStats,         \* Simulator: Stats of the stay strategy
    switchStats,       \* Simulator: Stats of the switch strategy
    animationData,     \* Simulator: trace buffer of 'win' / 'loss'
    simulationStopped, \* Simulator: useRef(false).current
    runs,              \* the invocations of runSimulation of the mounted Simulator
    active,            \* the run executing synchronously (0: none, the event loop is idle)
    trial              \* locals of the loop iteration being executed

appVars    == <<config, tempConfig, error>>
manualVars == <<doors, gameState, message, manualStats, hostTimer, hostUpdates,
                pickedIndex>>
inputVars  == <<simulations, speed>>
batchVars  == <<isSimulating, renderedSimulating, progress, stayStats,
                switchStats, animationData,
                simulationStopped, runs, active, trial>>
vars       == <<appVars, manualVars, inputVars, batchVars, mountEffect>>

---------------------------------------------------------------------------
(* Bounds of the model *)

MaxDoors == 4
ExtraDraws == 1
MaxGames == 2
MaxRuns == 2
MaxSimulations == 2

(* Program constants *)

InitialDoors == 3
InitialPrizes == 1
InitialSimulations == 1000
InitialSpeed == 50
MaxSpeed == 100
DelayBase == 100
ProgressSteps == 100
PercentScale == 100
TraceSteps == 300
TraceKeep == 299

NoDoor == -1

---------------------------------------------------------------------------
(* Texts and parseInt *)

DigitSeq == <<"0", "1", "2", "3", "4", "5", "6", "7", "8", "9">>

IsDigit(c) == \E k \in 1..10 : DigitSeq[k] = c

DigitVal(c) == (CHOOSE k \in 1..10 : DigitSeq[k] = c) - 1

RECURSIVE toString(_)
toString(n) ==
    IF n < 10 THEN <<DigitSeq[n + 1]>>
    ELSE toString(n \div 10) \o <<DigitSeq[(n % 10) + 1]>>

\* A text is a sequence of characters. An ASCII character is the string that
\* holds it; a character outside ASCII is the string "U+" followed by the four
\* hexadecimal digits of its code point, since a string of this module holds
\* ASCII only.
\*
\* The characters parseInt skips at the start of a text (StrWhiteSpaceChar):
\* tab, line feed, vertical tab, form feed, carriage return, space, the
\* no-break space, the other space separators of Unicode, the line and
\* paragraph separators and the byte order mark.
WhiteSpace ==
    {"\t", "\n", "\f", "\r", " ", "",
     "U+00A0", "U+1680",
     "U+2000", "U+2001", "U+2002", "U+2003", "U+2004", "U+2005",
     "U+2006", "U+2007", "U+2008", "U+2009", "U+200A",
     "U+2028", "U+2029", "U+202F", "U+205F", "U+3000", "U+FEFF"}

RECURSIVE SkipSpace(_)
SkipSpace(s) ==
    IF s # <<>> /\ Head(s) \in WhiteSpace THEN SkipSpace(Tail(s)) ELSE s

RECURSIVE ParseDigits(_, _, _)
ParseDigits(s, acc, seen) ==
    IF s # <<>> /\ IsDigit(Head(s))
    THEN ParseDigits(Tail(s), 10 * acc + DigitVal(Head(s)), TRUE)
    ELSE [nan |-> ~seen, val |-> acc]

\* parseInt(text, 10): leading white space, an optional sign, then the longest
\* run of digits; NaN when there is no digit.
ParseInt(text) ==
    LET s == SkipSpace(text)
        neg == s # <<>> /\ Head(s) = "-"
        body == IF s # <<>> /\ Head(s) \in {"-", "+"} THEN Tail(s) ELSE s
        r == ParseDigits(body, 0, FALSE)
    IN  [nan |-> r.nan, val |-> IF neg THEN 0 - r.val ELSE r.val]

IsNaN(r) == r.nan

---------------------------------------------------------------------------
(* App: configuration *)

\* Mutant: the switch-choice rule is tested before the prize-count rule.
Validate_SwitchRuleFirst(doorCount, prizeCount) ==
    IF IsNaN(doorCount) \/ IsNaN(prizeCount) THEN "NotANumber"
    ELSE IF doorCount.val < 3 THEN "TooFewDoors"
    ELSE IF prizeCount.val < 1 THEN "TooFewPrizes"
    ELSE IF doorCount.val - prizeCount.val < 2 THEN "InsufficientSwitchChoice"
    ELSE IF prizeCount.val >= doorCount.val THEN "TooManyPrizes"
    ELSE ""

\* validate(): the kind of the first message returned, "" when none
Validate(doorCount, prizeCount) ==
    IF IsNaN(doorCount) \/ IsNaN(prizeCount) THEN "NotANumber"
    ELSE IF doorCount.val < 3 THEN "TooFewDoors"
    ELSE IF prizeCount.val < 1 THEN "TooFewPrizes"
    ELSE IF prizeCount.val >= doorCount.val THEN "TooManyPrizes"
    ELSE IF doorCount.val - prizeCount.val < 2 THEN "InsufficientSwitchChoice"
    ELSE ""

DoorTexts ==
    {toString(n) : n \in 2..MaxDoors}
    \cup {<<>>, <<"\t", "U+3000">> \o toString(MaxDoors), <<"U+00E9">> \o toString(MaxDoors)}

PrizeTexts == {toString(n) : n \in 0..(MaxDoors - 1)} \cup {<<"x">>}

Num(n) == [nan |-> FALSE, val |-> n]

\* The configurations handleApplyConfig accepts, among those the texts can spell
ValidConfigs ==
    {c \in [numberOfDoors : 0..MaxDoors, numberOfPrizes : 0..MaxDoors] :
        Validate(Num(c.numberOfDoors), Num(c.numberOfPrizes)) = ""}

---------------------------------------------------------------------------
(* Board generation *)

Indices(n) == 0..(n - 1)

NewDoor == [hasPrize |-> FALSE, isOpen |-> FALSE, isSelected |-> FALSE]

\* Mutant: the loop counts a prize for every draw, without looking at the door.
RECURSIVE PlacePrizes_CountsRepeats(_, _, _, _)
PlacePrizes_CountsRepeats(board, prizesPlaced, numberOfPrizes, draws) ==
    IF ~(prizesPlaced < numberOfPrizes)
    THEN [done |-> TRUE, doors |-> board, left |-> Len(draws)]
    ELSE IF draws = <<>>
    THEN [done |-> FALSE, doors |-> board, left |-> 0]
    ELSE PlacePrizes_CountsRepeats([board EXCEPT ![Head(draws)].hasPrize = TRUE],
                                   prizesPlaced + 1, numberOfPrizes, Tail(draws))

\* The while loop of setupDoors fed the positions `draws` in order: the loop ends
\* as soon as prizesPlaced reaches numberOfPrizes; `left` is what it did not read.
RECURSIVE PlacePrizes(_, _, _, _)
PlacePrizes(board, prizesPlaced, numberOfPrizes, draws) ==
    IF ~(prizesPlaced < numberOfPrizes)
    THEN [done |-> TRUE, doors |-> board, left |-> Len(draws)]
    ELSE IF draws = <<>>
    THEN [done |-> FALSE, doors |-> board, left |-> 0]
    ELSE LET position == Head(draws) IN
         IF ~board[position].hasPrize
         THEN PlacePrizes([board EXCEPT ![position].hasPrize = TRUE],
                          prizesPlaced + 1, numberOfPrizes, Tail(draws))
         ELSE PlacePrizes(board, prizesPlaced, numberOfPrizes, Tail(draws))

\* Sequences of positions Math.random() may deliver to one board generation.
DrawSeqs(numberOfDoors, numberOfPrizes) ==
    UNION {[1..len -> Indices(numberOfDoors)] :
              len \in numberOfPrizes..(numberOfPrizes + ExtraDraws)}

setupDoorsWith(numberOfDoors, numberOfPrizes, draws) ==
    PlacePrizes([k \in Indices(numberOfDoors) |-> NewDoor], 0, numberOfPrizes, draws)

\* Every (configuration, board) pair setupDoors() can produce.
setupDoorsResults ==
    UNION {{[config |-> c, doors |-> x.doors] :
               x \in {y \in {setupDoorsWith(c.numberOfDoors, c.numberOfPrizes, d) :
                                d \in DrawSeqs(c.numberOfDoors, c.numberOfPrizes)} :
                          y.done /\ y.left = 0}} :
           c \in ValidConfigs}

\* Every board setupDoors() can return under configuration cfg.
setupDoors(cfg) == {p.doors : p \in {q \in setupDoorsResults : q.config = cfg}}

---------------------------------------------------------------------------
(* Simulator: state of a freshly mounted component *)

ChooseMessage(numberOfDoors) == [kind |-> "choose", doors |-> numberOfDoors]

Msg(kind) == [kind |-> kind, doors |-> 0]

ZeroStats == [wins |-> 0, losses |-> 0]

ZeroManualStats == [stayWins |-> 0, switchWins |-> 0, total |-> 0]

\* The state hooks for which an update of the host callback waits for the next
\* render: none, and all three the callback sets.
NoUpdates == [doors |-> FALSE, gameState |-> FALSE, message |-> FALSE]

AllUpdates == [doors |-> TRUE, gameState |-> TRUE, message |-> TRUE]

\* A value of progress: the double (num / den) * scale, num / den in lowest
\* terms. Two such values are the same double exactly when they are the same
\* record: the quotient is rounded from the ratio alone, and ratios with
\* denominators this small are too far apart to round to one double.
Fraction(num, den) == [num |-> num, den |-> den, scale |-> PercentScale]

\* A Simulator remounted by the Apply click: the useState initialisers, `b` the
\* board of the first one, then the mount effect, which React runs within the
\* commit of a render caused by a click; its updates wait for the next render.
MountSimulator(cfg, b) ==
    /\ mountEffect' = "flushing"
    /\ doors' = b
    /\ gameState' = "initial"
    /\ message' = ChooseMessage(cfg.numberOfDoors)
    /\ manualStats' = ZeroManualStats
    /\ hostTimer' = 0
    /\ hostUpdates' = NoUpdates
    /\ pickedIndex' = NoDoor
    /\ simulations' = InitialSimulations
    /\ speed' = InitialSpeed
    /\ isSimulating' = FALSE
    /\ renderedSimulating' = FALSE
    /\ progress' = Fraction(0, 1)
    /\ stayStats' = ZeroStats
    /\ switchStats' = ZeroStats
    /\ animationData' = <<>>
    /\ simulationStopped' = FALSE
    /\ runs' = <<>>
    /\ active' = 0
    /\ trial' = <<>>

InitialConfig == [numberOfDoors |-> InitialDoors, numberOfPrizes |-> InitialPrizes]

Init ==
    /\ config = InitialConfig
    /\ tempConfig = [doors |-> toString(InitialDoors), prizes |-> toString(InitialPrizes)]
    /\ error = ""
    /\ doors \in setupDoors(InitialConfig)
    /\ gameState = "initial"
    /\ message = ChooseMessage(InitialDoors)
    /\ manualStats = ZeroManualStats
    /\ hostTimer = 0
    /\ hostUpdates = NoUpdates
    /\ pickedIndex = NoDoor
    /\ mountEffect = "scheduled"
    /\ simulations = InitialSimulations
    /\ speed = InitialSpeed
    /\ isSimulating = FALSE
    /\ renderedSimulating = FALSE
    /\ progress = Fraction(0, 1)
    /\ stayStats = ZeroStats
    /\ switchStats = ZeroStats
    /\ animationData = <<>>
    /\ simulationStopped = FALSE
    /\ runs = <<>>
    /\ active = 0
    /\ trial = <<>>

---------------------------------------------------------------------------
(* App: the settings panel.  Event handlers run only when no run is executing *)
(* synchronously (active = 0).                                                 *)

\* A handler that sets state makes React render, and React runs a scheduled
\* effect before it renders: the effect's updates are queued after the
\* handler's, for a later render.
EventFlush ==
    mountEffect' = IF mountEffect = "scheduled" THEN "flushing" ELSE mountEffect

\* useEffect(() => { resetManualGame(); }, [resetManualGame]) of the first
\* mount, run by the scheduler: setDoors, setGameState and setMessage are
\* queued.
MountEffect ==
    /\ active = 0
    /\ mountEffect = "scheduled"
    /\ mountEffect' = "flushing"
    /\ UNCHANGED <<appVars, manualVars, inputVars, batchVars>>

SetTempDoors(text) ==
    /\ active = 0
    /\ EventFlush
    /\ tempConfig' = [tempConfig EXCEPT !.doors = text]
    /\ UNCHANGED <<config, error, manualVars, inputVars, batchVars>>

SetTempPrizes(text) ==
    /\ active = 0
    /\ EventFlush
    /\ tempConfig' = [tempConfig EXCEPT !.prizes = text]
    /\ UNCHANGED <<config, error, manualVars, inputVars, batchVars>>

\* Mutant: a rejected input also resets the Simulator under the old config.
handleApplyConfig_ResetsOnReject ==
    /\ active = 0
    /\ LET doorCount == ParseInt(tempConfig.doors)
           prizeCount == ParseInt(tempConfig.prizes)
           errorMessage == Validate(doorCount, prizeCount)
           newConfig == [numberOfDoors |-> doorCount.val, numberOfPrizes |-> prizeCount.val]
       IN  IF errorMessage # ""
           THEN /\ error' = errorMessage
                /\ UNCHANGED <<config, tempConfig>>
                /\ \E b \in setupDoors(config) : MountSimulator(config, b)
           ELSE /\ error' = ""
                /\ config' = newConfig
                /\ UNCHANGED tempConfig
                /\ IF newConfig = config
                   THEN EventFlush /\ UNCHANGED <<manualVars, inputVars, batchVars>>
                   ELSE \E b \in setupDoors(newConfig) : MountSimulator(newConfig, b)

\* A rejected input sets the error only.  An accepted one replaces the config; the
\* Simulator is keyed by JSON.stringify(config), so it is remounted (all its state
\* reset, its timers and loops detached) exactly when the values differ.
handleApplyConfig ==
    /\ active = 0
    /\ LET doorCount == ParseInt(tempConfig.doors)
           prizeCount == ParseInt(tempConfig.prizes)
           errorMessage == Validate(doorCount, prizeCount)
           newConfig == [numberOfDoors |-> doorCount.val, numberOfPrizes |-> prizeCount.val]
       IN  IF errorMessage # ""
           THEN /\ error' = errorMessage
                /\ EventFlush
                /\ UNCHANGED <<config, tempConfig, manualVars, inputVars, batchVars>>
           ELSE /\ error' = ""
                /\ config' = newConfig
                /\ UNCHANGED tempConfig
                /\ IF newConfig = config
                   THEN EventFlush /\ UNCHANGED <<manualVars, inputVars, batchVars>>
                   ELSE \E b \in setupDoors(newConfig) : MountSimulator(newConfig, b)

---------------------------------------------------------------------------
(* Simulator: the manual game *)

Selected(ds) == {k \in DOMAIN ds : ds[k].isSelected}

Open(ds) == {k \in DOMAIN ds : ds[k].isOpen}

Prizes(ds) == {k \in DOMAIN ds : ds[k].hasPrize}

Min(S) == CHOOSE x \in S : \A y \in S : x <= y

\* doors.findIndex(d => d.isSelected)
FindSelected(ds) == IF Selected(ds) = {} THEN NoDoor ELSE Min(Selected(ds))

\* The doors the host may open: not picked, no prize.
HostOpenableDoors(ds) == {k \in DOMAIN ds : ~ds[k].isSelected /\ ~ds[k].hasPrize}

\* hostOpenableDoors[Math.floor(Math.random() * length)]: any member, or
\* undefined (NoDoor) when the list is empty.
PickFrom(S) == IF S = {} THEN {NoDoor} ELSE S

\* The early returns of handleDoorClick
IgnoreClick == UNCHANGED <<manualVars, mountEffect>>

\* The first click.  Its setDoors and setGameState are rendered at once and
\* come after the updates that a host callback or the mount effect has queued
\* for the same hooks, which they replace (the effect's message is the one
\* shown); an effect still scheduled runs after the handler, its updates last.
PickDoor(clickedIndex) ==
    /\ doors' = [doors EXCEPT ![clickedIndex].isSelected = TRUE]
    /\ gameState' = "picked"
    /\ hostTimer' = hostTimer + 1
    /\ hostUpdates' = [hostUpdates EXCEPT !.doors = FALSE, !.gameState = FALSE]
    /\ pickedIndex' = clickedIndex
    /\ mountEffect' = IF mountEffect = "scheduled" THEN "flushing" ELSE "done"
    /\ UNCHANGED <<message, manualStats>>

FinalChoice(clickedIndex) ==
    LET initialChoiceIndex == FindSelected(doors)
        switched == clickedIndex # initialChoiceIndex
        hasWon == doors[clickedIndex].hasPrize
    IN  /\ manualStats' =
              [total |-> manualStats.total + 1,
               stayWins |-> IF ~switched /\ hasWon THEN manualStats.stayWins + 1
                            ELSE manualStats.stayWins,
               switchWins |-> IF switched /\ hasWon THEN manualStats.switchWins + 1
                              ELSE manualStats.switchWins]
        /\ message' = IF hasWon
                      THEN (IF switched THEN Msg("wonSwitch") ELSE Msg("wonStay"))
                      ELSE (IF switched THEN Msg("lostSwitch") ELSE Msg("lostStay"))
        /\ doors' = [k \in DOMAIN doors |->
                        [doors[k] EXCEPT !.isOpen = TRUE,
                                         !.isSelected = (k = clickedIndex)]]
        /\ gameState' = "finished"
        /\ hostUpdates' = NoUpdates
        /\ UNCHANGED <<hostTimer, pickedIndex, mountEffect>>

\* Mutant: 'revealed' accepts a click on the open door as the final choice.
handleDoorClick_NoOpenCheck(clickedIndex) ==
    /\ active = 0
    /\ clickedIndex \in DOMAIN doors
    /\ IF gameState = "finished" \/ gameState = "picked" THEN IgnoreClick
       ELSE IF gameState = "initial" THEN PickDoor(clickedIndex)
       ELSE FinalChoice(clickedIndex)
    /\ UNCHANGED <<appVars, inputVars, batchVars>>

handleDoorClick(clickedIndex) ==
    /\ active = 0
    /\ clickedIndex \in DOMAIN doors
    /\ IF gameState = "finished" \/ gameState = "picked" THEN IgnoreClick
       ELSE IF gameState = "initial" THEN PickDoor(clickedIndex)
       ELSE IF doors[clickedIndex].isOpen THEN IgnoreClick
       ELSE FinalChoice(clickedIndex)
    /\ UNCHANGED <<appVars, inputVars, batchVars>>

\* The setTimeout callback of the first click: it queues setDoors, setGameState
\* and setMessage; React renders them in a later task.
HostTimeout ==
    /\ active = 0
    /\ hostTimer > 0
    /\ hostTimer' = hostTimer - 1
    /\ hostUpdates' = AllUpdates
    /\ UNCHANGED <<doors, gameState, message, manualStats, pickedIndex, mountEffect,
                   appVars, inputVars, batchVars>>

\* Mutant: a new game also clears the counters.
resetManualGame_ClearsStats ==
    /\ active = 0
    /\ gameState = "finished"
    /\ manualStats.total < MaxGames
    /\ doors' \in setupDoors(config)
    /\ gameState' = "initial"
    /\ message' = ChooseMessage(config.numberOfDoors)
    /\ manualStats' = ZeroManualStats
    /\ hostUpdates' = NoUpdates
    /\ pickedIndex' = NoDoor
    /\ UNCHANGED <<hostTimer, mountEffect, appVars, inputVars, batchVars>>

\* The "new game" button, rendered only in 'finished'.  Its three updates
\* replace those a host callback has queued.
resetManualGame ==
    /\ active = 0
    /\ gameState = "finished"
    /\ manualStats.total < MaxGames
    /\ doors' \in setupDoors(config)
    /\ gameState' = "initial"
    /\ message' = ChooseMessage(config.numberOfDoors)
    /\ hostUpdates' = NoUpdates
    /\ pickedIndex' = NoDoor
    /\ UNCHANGED <<manualStats, hostTimer, mountEffect, appVars, inputVars, batchVars>>

ConfigNext ==
    \/ \E text \in DoorTexts : SetTempDoors(text)
    \/ \E text \in PrizeTexts : SetTempPrizes(text)
    \/ handleApplyConfig

\* React renders the queued updates in a later task: those of the mount effect
\* (a fresh board, 'initial', the first message), then those of a host
\* callback, and the isSimulating set by a loop that ended.  An event served
\* before this step has run the handler of the render before.
Render ==
    /\ active = 0
    /\ \/ mountEffect = "flushing"
       \/ hostUpdates # NoUpdates
       \/ renderedSimulating # isSimulating
    /\ \E b \in (IF mountEffect = "flushing" THEN setupDoors(config) ELSE {doors}) :
          IF hostUpdates.doors
          THEN \E hostOpenIndex \in PickFrom(HostOpenableDoors(b)) :
                  doors' = [k \in DOMAIN b |->
                               [b[k] EXCEPT !.isOpen = (k = hostOpenIndex)]]
          ELSE doors' = b
    /\ gameState' = IF hostUpdates.gameState THEN "revealed"
                    ELSE IF mountEffect = "flushing" THEN "initial"
                    ELSE gameState
    /\ message' = IF hostUpdates.message THEN Msg("stayOrSwitch")
                  ELSE IF mountEffect = "flushing" THEN ChooseMessage(config.numberOfDoors)
                  ELSE message
    /\ hostUpdates' = NoUpdates
    /\ mountEffect' = IF mountEffect = "flushing" THEN "done" ELSE mountEffect
    /\ renderedSimulating' = isSimulating
    /\ UNCHANGED <<manualStats, hostTimer, pickedIndex, appVars, inputVars,
                   isSimulating, progress, stayStats, switchStats, animationData,
                   simulationStopped, runs, active, trial>>

\* The steps React takes by itself
ReactNext == MountEffect \/ Render

ManualNext ==
    \/ \E clickedIndex \in Indices(MaxDoors) : handleDoorClick(clickedIndex)
    \/ HostTimeout
    \/ resetManualGame

---------------------------------------------------------------------------
(* Simulator: the batch simulator *)

Max(a, b) == IF a >= b THEN a ELSE b

\* Math.ceil(a / b) for positive integers
Ceil(a, b) == (a + b - 1) \div b

RECURSIVE Gcd(_, _)
Gcd(a, b) == IF b = 0 THEN a ELSE Gcd(b, a % b)

\* (i / simulations) * 100: the quotient, rounded, then times 100, rounded
Percent(i, n) == Fraction(i \div Gcd(i, n), n \div Gcd(i, n))

\* setProgress(100)
Full == Fraction(1, 1)

\* Math.max(0, 100 - speed)
Delay(s) == Max(0, DelayBase - s)

\* Mutant: the slice keeps the oldest entries.
SliceLast_KeepsOldest(data, n) ==
    IF Len(data) <= n THEN data ELSE SubSeq(data, 1, n)

\* prevData.slice(-n)
SliceLast(data, n) ==
    IF Len(data) <= n THEN data ELSE SubSeq(data, Len(data) - n + 1, Len(data))

SimulationTexts == {toString(n) : n \in 0..MaxSimulations} \cup {<<>>}

\* The trial count of a long run: every second trial is sampled into the
\* trace, and the samples of one run fill it.
LongRun == 2 * TraceSteps

LongTexts == {toString(LongRun)}

SpeedValues == {InitialSpeed, MaxSpeed}

\* onChange of the trial-count input (disabled while isSimulating is rendered):
\* Math.max(1, parseInt(value) || 1)
SetSimulations(text) ==
    /\ active = 0
    /\ EventFlush
    /\ ~renderedSimulating
    /\ LET v == ParseInt(text)
           n == IF IsNaN(v) \/ v.val = 0 THEN 1 ELSE v.val
       IN  simulations' = Max(1, n)
    /\ UNCHANGED <<speed, appVars, manualVars, batchVars>>

\* onChange of the speed slider (disabled while isSimulating is rendered)
SetSpeed(value) ==
    /\ active = 0
    /\ EventFlush
    /\ ~renderedSimulating
    /\ speed' = ParseInt(toString(value)).val
    /\ UNCHANGED <<simulations, appVars, manualVars, batchVars>>

\* The inline generator of a trial: the same loop over an array of booleans.
RECURSIVE PlaceFlags(_, _, _, _)
PlaceFlags(currentDoors, prizesPlaced, numberOfPrizes, draws) ==
    IF ~(prizesPlaced < numberOfPrizes)
    THEN [done |-> TRUE, doors |-> currentDoors, left |-> Len(draws)]
    ELSE IF draws = <<>>
    THEN [done |-> FALSE, doors |-> currentDoors, left |-> 0]
    ELSE LET pos == Head(draws) IN
         IF ~currentDoors[pos]
         THEN PlaceFlags([currentDoors EXCEPT ![pos] = TRUE],
                         prizesPlaced + 1, numberOfPrizes, Tail(draws))
         ELSE PlaceFlags(currentDoors, prizesPlaced, numberOfPrizes, Tail(draws))

trialDoorsWith(numberOfDoors, numberOfPrizes, draws) ==
    PlaceFlags([k \in Indices(numberOfDoors) |-> FALSE], 0, numberOfPrizes, draws)

\* Every (configuration, currentDoors) pair a trial can generate.
trialDoorsResults ==
    UNION {{[config |-> c, doors |-> x.doors] :
               x \in {y \in {trialDoorsWith(c.numberOfDoors, c.numberOfPrizes, d) :
                                d \in DrawSeqs(c.numberOfDoors, c.numberOfPrizes)} :
                          y.done /\ y.left = 0}} :
           c \in ValidConfigs}

\* Every currentDoors array a trial can generate under configuration cfg.
trialDoors(cfg) == {p.doors : p \in {q \in trialDoorsResults : q.config = cfg}}

OtherDoors(numberOfDoors, playerChoice) == Indices(numberOfDoors) \ {playerChoice}

HostOpenable(currentDoors, playerChoice) ==
    {k \in OtherDoors(Cardinality(DOMAIN currentDoors), playerChoice) : ~currentDoors[k]}

Switchable(currentDoors, playerChoice, hostOpened) ==
    OtherDoors(Cardinality(DOMAIN currentDoors), playerChoice) \ {hostOpened}

\* currentDoors[k], falsy for an undefined index
HasPrizeAt(currentDoors, k) == k \in DOMAIN currentDoors /\ currentDoors[k]

\* Whether the host-and-switch step of a trial is computed at all
SimulatesSwitch(currentDoors, playerChoice) == ~currentDoors[playerChoice]

NewRun(n, d) ==
    [pc |-> "head", i |-> 1, localStayWins |-> 0, localSwitchWins |-> 0,
     simulations |-> n, delay |-> d, stopRequested |-> FALSE]

\* A run whose function has returned: its counters i and simulations are kept for
\* reference, its other locals are dead.
Ended(run) ==
    [pc |-> "done", i |-> run.i, localStayWins |-> 0, localSwitchWins |-> 0,
     simulations |-> run.simulations, delay |-> 0, stopRequested |-> run.stopRequested]

\* Mutant: the loop leaves out the last trial.
LoopContinues_StopsOneShort(run) == run.i < run.simulations

\* The condition of the for loop: i <= simulations
LoopContinues(run) == run.i <= run.simulations

\* The start button (rendered while ~isSimulating): runSimulation up to its loop.
\* The click is rendered when the loop first sleeps, with isSimulating true; a
\* loop without delay ends within the click, which renders it false again.
runSimulation ==
    /\ active = 0
    /\ EventFlush
    /\ ~renderedSimulating
    /\ Len(runs) < MaxRuns
    /\ simulations <= MaxSimulations \/ simulations = LongRun
    /\ isSimulating' = TRUE
    /\ renderedSimulating' = (Delay(speed) > 0)
    /\ simulationStopped' = FALSE
    /\ stayStats' = ZeroStats
    /\ switchStats' = ZeroStats
    /\ progress' = Fraction(0, 1)
    /\ animationData' = <<>>
    /\ runs' = Append(runs, NewRun(simulations, Delay(speed)))
    /\ active' = Len(runs) + 1
    /\ UNCHANGED <<trial, appVars, manualVars, inputVars>>

\* One loop iteration up to the two setStats calls.
RunTrial(r) ==
    /\ r \in DOMAIN runs
    /\ active = r
    /\ runs[r].pc = "head"
    /\ LoopContinues(runs[r])
    /\ ~simulationStopped
    /\ \E currentDoors \in trialDoors(config), playerChoice \in Indices(config.numberOfDoors) :
         \E hostOpened \in (IF SimulatesSwitch(currentDoors, playerChoice)
                            THEN PickFrom(HostOpenable(currentDoors, playerChoice))
                            ELSE {NoDoor}) :
         \E switchChoice \in (IF SimulatesSwitch(currentDoors, playerChoice)
                              THEN PickFrom(Switchable(currentDoors, playerChoice, hostOpened))
                              ELSE {NoDoor}) :
           LET i == runs[r].i
               localStayWins == runs[r].localStayWins +
                                  (IF currentDoors[playerChoice] THEN 1 ELSE 0)
               localSwitchWins == runs[r].localSwitchWins +
                                  (IF SimulatesSwitch(currentDoors, playerChoice)
                                      /\ HasPrizeAt(currentDoors, switchChoice)
                                   THEN 1 ELSE 0)
           IN  /\ runs' = [runs EXCEPT ![r].pc = "scored",
                                       ![r].localStayWins = localStayWins,
                                       ![r].localSwitchWins = localSwitchWins]
               /\ stayStats' = [wins |-> localStayWins, losses |-> i - localStayWins]
               /\ switchStats' = [wins |-> localSwitchWins, losses |-> i - localSwitchWins]
               /\ trial' = [currentDoors |-> currentDoors, playerChoice |-> playerChoice,
                            hostOpened |-> hostOpened, switchChoice |-> switchChoice,
                            switchWin |-> localSwitchWins > runs[r].localSwitchWins]
    /\ UNCHANGED <<isSimulating, renderedSimulating, progress, animationData,
                   simulationStopped, active,
                   mountEffect, appVars, manualVars, inputVars>>

\* The rest of the iteration: trace sample, progress report, sleep or i++.
Report(r) ==
    /\ r \in DOMAIN runs
    /\ active = r
    /\ runs[r].pc = "scored"
    /\ LET i == runs[r].i
           n == runs[r].simulations
           lastStayResult == IF trial.currentDoors[trial.playerChoice] THEN "win" ELSE "loss"
       IN  /\ animationData' =
                 IF i % Ceil(n, TraceSteps) = 0
                 THEN Append(SliceLast(animationData, TraceKeep), lastStayResult)
                 ELSE animationData
           /\ IF i % Ceil(n, ProgressSteps) = 0
              THEN /\ progress' = Percent(i, n)
                   /\ IF runs[r].delay > 0
                      THEN /\ runs' = [runs EXCEPT ![r].pc = "sleep"]
                           /\ active' = 0
                      ELSE /\ runs' = [runs EXCEPT ![r].pc = "head", ![r].i = i + 1]
                           /\ UNCHANGED active
              ELSE /\ runs' = [runs EXCEPT ![r].pc = "head", ![r].i = i + 1]
                   /\ UNCHANGED <<progress, active>>
    /\ trial' = <<>>
    /\ UNCHANGED <<isSimulating, renderedSimulating, stayStats, switchStats,
                   simulationStopped,
                   mountEffect, appVars, manualVars, inputVars>>

\* The sleep() promise resolves: i++ and back to the loop condition.
Wake(r) ==
    /\ r \in DOMAIN runs
    /\ active = 0
    /\ runs[r].pc = "sleep"
    /\ runs' = [runs EXCEPT ![r].pc = "head", ![r].i = runs[r].i + 1]
    /\ active' = r
    /\ UNCHANGED <<isSimulating, renderedSimulating, progress, stayStats,
                   switchStats, animationData, simulationStopped, trial, mountEffect, appVars, manualVars,
                   inputVars>>

\* The loop ends (condition false, or break on the flag): the two calls after
\* it.  After a sleep they are queued for a later render, so the stop button
\* stays on screen until then.
FinishRun(r) ==
    /\ r \in DOMAIN runs
    /\ active = r
    /\ runs[r].pc = "head"
    /\ ~LoopContinues(runs[r]) \/ simulationStopped
    /\ progress' = Full
    /\ isSimulating' = FALSE
    /\ runs' = [runs EXCEPT ![r] = Ended(runs[r])]
    /\ active' = 0
    /\ UNCHANGED <<renderedSimulating, stayStats, switchStats, animationData,
                   simulationStopped, trial, mountEffect, appVars, manualVars,
                   inputVars>>

\* The stop button (on screen while isSimulating is rendered true).
\* stopRequested records, for
\* each run not yet ended, that stop() was called on it.
handleStopSimulation ==
    /\ active = 0
    /\ renderedSimulating
    /\ simulationStopped' = TRUE
    /\ isSimulating' = FALSE
    /\ renderedSimulating' = FALSE
    /\ runs' = [r \in DOMAIN runs |->
                  IF runs[r].pc # "done" THEN [runs[r] EXCEPT !.stopRequested = TRUE]
                  ELSE runs[r]]
    /\ UNCHANGED <<progress, stayStats, switchStats, animationData, active, trial,
                   mountEffect, appVars, manualVars, inputVars>>

ValidDoorTexts == {toString(n) : n \in 3..MaxDoors}

ValidPrizeTexts == {toString(n) : n \in 1..(MaxDoors - 2)}

\* The settings panel restricted to texts of valid door and prize counts
ReconfigNext ==
    \/ \E text \in ValidDoorTexts : SetTempDoors(text)
    \/ \E text \in ValidPrizeTexts : SetTempPrizes(text)
    \/ handleApplyConfig

BatchNext ==
    \/ \E text \in SimulationTexts : SetSimulations(text)
    \/ \E value \in SpeedValues : SetSpeed(value)
    \/ runSimulation
    \/ \E r \in 1..MaxRuns : RunTrial(r)
    \/ \E r \in 1..MaxRuns : Report(r)
    \/ \E r \in 1..MaxRuns : Wake(r)
    \/ \E r \in 1..MaxRuns : FinishRun(r)
    \/ handleStopSimulation

\* The batch simulator without the stop button and the speed slider
TrialNext ==
    \/ \E text \in SimulationTexts : SetSimulations(text)
    \/ runSimulation
    \/ \E r \in 1..MaxRuns : RunTrial(r)
    \/ \E r \in 1..MaxRuns : Report(r)
    \/ \E r \in 1..MaxRuns : Wake(r)
    \/ \E r \in 1..MaxRuns : FinishRun(r)

\* The batch simulator without the stop button
NoStopNext ==
    \/ \E text \in SimulationTexts : SetSimulations(text)
    \/ \E value \in SpeedValues : SetSpeed(value)
    \/ runSimulation
    \/ \E r \in 1..MaxRuns : RunTrial(r)
    \/ \E r \in 1..MaxRuns : Report(r)
    \/ \E r \in 1..MaxRuns : Wake(r)
    \/ \E r \in 1..MaxRuns : FinishRun(r)

\* A trial for which Math.random() places the prizes from door i on and picks
\* door 0.
FixedDraw(r) ==
    /\ RunTrial(r)
    /\ trial'.playerChoice = 0
    /\ Prizes([k \in DOMAIN trial'.currentDoors |-> [hasPrize |-> trial'.currentDoors[k]]])
         = {(runs[r].i + k) % config.numberOfDoors : k \in Indices(config.numberOfPrizes)}

\* The first run at any speed, a later one at full speed.
StartUninterleaved ==
    /\ runSimulation
    /\ runs = <<>> \/ speed = MaxSpeed

\* Long runs with fixed draws; a run started after another does not sleep, so
\* that no two loops take turns.
LongNext ==
    \/ \E text \in LongTexts : SetSimulations(text)
    \/ SetSpeed(MaxSpeed)
    \/ StartUninterleaved
    \/ \E r \in 1..MaxRuns : FixedDraw(r)
    \/ \E r \in 1..MaxRuns : Report(r)
    \/ \E r \in 1..MaxRuns : Wake(r)
    \/ \E r \in 1..MaxRuns : FinishRun(r)
    \/ handleStopSimulation

\* The start button pressed for the first time since the mount
FirstRun == runs = <<>> /\ runSimulation

\* The batch simulator started once and never stopped
SingleRunNext ==
    \/ \E text \in SimulationTexts : SetSimulations(text)
    \/ FirstRun
    \/ RunTrial(1)
    \/ Report(1)
    \/ Wake(1)
    \/ FinishRun(1)

\* The first click of a manual game and the host's answer
HostNext ==
    \/ \E clickedIndex \in Indices(MaxDoors) : handleDoorClick(clickedIndex)
    \/ HostTimeout

Next == ReactNext \/ ConfigNext \/ ManualNext \/ BatchNext

\* The whole program
Spec == Init /\ [][Next]_vars

\* The settings panel alone, with texts of valid and invalid counts
SpecConfig == Init /\ [][ReactNext \/ ConfigNext]_vars

\* The manual game under every configuration
SpecManual == Init /\ [][ReactNext \/ ReconfigNext \/ ManualNext]_vars

\* The scheduled mount effect runs, the host's timer fires once it is due, and
\* React renders what its callback queued
LiveManual ==
    SpecManual /\ WF_vars(MountEffect) /\ WF_vars(HostTimeout) /\ WF_vars(Render)

\* The batch simulator with all its controls, under the initial configuration
SpecBatch == Init /\ [][ReactNext \/ BatchNext]_vars

\* Batch runs that are never stopped, under the initial configuration
SpecNoStop == Init /\ [][ReactNext \/ NoStopNext]_vars

\* The mount effect runs, a started loop keeps executing, and its sleep()
\* timers resolve
LiveNoStop ==
    /\ SpecNoStop
    /\ WF_vars(MountEffect)
    /\ WF_vars(Render)
    /\ WF_vars(\E r \in 1..MaxRuns : RunTrial(r))
    /\ WF_vars(\E r \in 1..MaxRuns : Report(r))
    /\ WF_vars(\E r \in 1..MaxRuns : Wake(r))
    /\ WF_vars(\E r \in 1..MaxRuns : FinishRun(r))

\* Long batch runs under the initial configuration
SpecLong == Init /\ [][ReactNext \/ LongNext]_vars

\* Batch trials under every configuration
SpecTrial == Init /\ [][ReactNext \/ ReconfigNext \/ TrialNext]_vars

\* One batch run and the manual game up to its final click, under every
\* configuration
SpecHost == Init /\ [][ReactNext \/ ReconfigNext \/ SingleRunNext \/ HostNext]_vars

---------------------------------------------------------------------------
(* Properties *)

\* Trials a run has fully scored
Completed(run) == IF run.pc \in {"scored", "sleep"} THEN run.i ELSE run.i - 1

StayTotal == stayStats.wins + stayStats.losses

SwitchTotal == switchStats.wins + switchStats.losses

\* C1: once stop() has been called on a run, that run scores no further trial
\* and writes the stay and switch Stats no more, whatever the user does next
\* (starting a new run while the stopped loop still sleeps included).
C1_StoppedRunScoresNoMore ==
    [][\A r \in DOMAIN runs :
          (runs[r].stopRequested /\ r \in DOMAIN runs')
          => /\ Completed(runs'[r]) = Completed(runs[r])
             /\ (active = r => UNCHANGED <<stayStats, switchStats>>)]_vars

\* C2: when a run ends by cancellation (the loop breaks with trials left), the
\* progress it leaves is the fraction of trials it completed, not 100%.
C2_CancelledProgressIsFraction ==
    [][\A r \in DOMAIN runs :
          (/\ r \in DOMAIN runs'
           /\ runs[r].pc = "head" /\ runs'[r].pc = "done"
           /\ runs[r].i <= runs[r].simulations)
          => progress' = Percent(runs[r].i - 1, runs[r].simulations)]_vars

\* C3: every scored trial has simulated the switch: the host opened a non-prize
\* door other than the pick, the player switched to a door that is neither the
\* pick nor the opened one, and the switch counts as a win iff that door holds
\* a prize; also when the picked door holds a prize.
C3_SwitchAlwaysSimulated ==
    \A r \in DOMAIN runs :
        runs[r].pc = "scored"
        => LET b == trial.currentDoors
               n == Cardinality(DOMAIN trial.currentDoors)
           IN  /\ trial.hostOpened \in Indices(n) \ {trial.playerChoice}
               /\ ~b[trial.hostOpened]
               /\ trial.switchChoice \in Indices(n) \ {trial.playerChoice, trial.hostOpened}
               /\ trial.switchWin <=> b[trial.switchChoice]

\* C4: whenever no loop is executing (each is suspended or has ended), the
\* totals of both strategies equal the number of trials completed by the
\* current run, the one started last.
C4_TotalsAreCompletedTrials ==
    (active = 0 /\ runs # <<>>)
    => /\ StayTotal = Completed(runs[Len(runs)])
       /\ SwitchTotal = Completed(runs[Len(runs)])

\* C5: a step of an earlier run never changes the Stats, the progress or the
\* trace shown for the run started after it.
C5_RunsDoNotShareOutputs ==
    [][(active # 0 /\ active < Len(runs))
       => UNCHANGED <<stayStats, switchStats, progress, animationData>>]_vars

\* C6: a click on door i in 'initial' leads to 'picked' with door i selected;
\* the game leaves 'picked' only for 'revealed', with exactly one door open,
\* that door without a prize and not the picked one, or by being discarded:
\* applying another config replaces the game by a fresh one in 'initial' and
\* drops the timer.  With the timer fair, a game in 'picked' reaches 'revealed'
\* unless it is discarded that way.
C6_PickThenReveal ==
    /\ [][\A i \in Indices(MaxDoors) :
             (gameState = "initial" /\ handleDoorClick(i))
             => (gameState' = "picked" /\ Selected(doors') = {i})]_vars
    /\ [][(gameState = "picked" /\ gameState' # "picked" /\ config' = config)
          => /\ gameState' = "revealed"
             /\ Cardinality(Open(doors')) = 1
             /\ Open(doors') \cap Prizes(doors') = {}
             /\ Open(doors') \cap Selected(doors) = {}
             /\ Selected(doors') = Selected(doors)
             /\ Prizes(doors') = Prizes(doors)]_vars
    /\ [][config' # config => (gameState' = "initial" /\ hostTimer' = 0)]_vars
    /\ (gameState = "picked") ~> (gameState = "revealed" \/ gameState = "initial")

\* C7: the host always has a door to open and opens one that is neither the
\* picked door nor a prize door: in the manual game (a game waiting for the
\* host has such a door; the door a revealed game shows open is not the door
\* the player picked, is not selected and has no prize) and in every batch
\* trial in which the host step runs.
C7_HostOpensGoatNotPicked ==
    /\ gameState = "picked"
       => \E k \in DOMAIN doors : ~doors[k].isSelected /\ ~doors[k].hasPrize
    /\ gameState = "revealed"
       => /\ Open(doors) # {}
          /\ \A k \in Open(doors) :
                k # pickedIndex /\ ~doors[k].isSelected /\ ~doors[k].hasPrize
    /\ \A r \in DOMAIN runs :
          (runs[r].pc = "scored" /\ ~trial.currentDoors[trial.playerChoice])
          => /\ trial.hostOpened \in DOMAIN trial.currentDoors
             /\ trial.hostOpened # trial.playerChoice
             /\ ~trial.currentDoors[trial.hostOpened]

\* C8: the final click in 'revealed' adds exactly 1 to total; it adds 1 to
\* stayWins alone when the clicked door is the initial pick and has a prize, 1
\* to switchWins alone when it is another door and has a prize, and to neither
\* without a prize; the game is then 'finished', all doors open, only the
\* clicked door selected.  A click on a closed door in 'revealed' is final.
C8_FinalClickScoresOnce ==
    [][\A i \in DOMAIN doors :
          (gameState = "revealed" /\ ~doors[i].isOpen /\ handleDoorClick(i))
          => LET switched == i # pickedIndex
                 won == doors[i].hasPrize
             IN  /\ manualStats'.total = manualStats.total + 1
                 /\ manualStats'.stayWins = manualStats.stayWins +
                        (IF won /\ ~switched THEN 1 ELSE 0)
                 /\ manualStats'.switchWins = manualStats.switchWins +
                        (IF won /\ switched THEN 1 ELSE 0)
                 /\ gameState' = "finished"
                 /\ Open(doors') = DOMAIN doors
                 /\ Selected(doors') = {i}
                 /\ Prizes(doors') = Prizes(doors)]_vars

\* C9: a click that is invalid for the state (any door in 'picked' or
\* 'finished', the host-opened door in 'revealed') changes neither gameState,
\* the doors, the message nor manualStats, now or at the next render.
C9_InvalidClickIsNoOp ==
    [][\A i \in DOMAIN doors :
          (/\ handleDoorClick(i)
           /\ \/ gameState \in {"picked", "finished"}
              \/ gameState = "revealed" /\ doors[i].isOpen)
          => UNCHANGED <<doors, gameState, message, manualStats, hostUpdates>>]_vars

\* A second game waits for the final choice with the host's door open: the
\* state in which a click on that door is taken (and leaves it as it is).
C9_Witness ==
    /\ gameState = "revealed"
    /\ manualStats.total = 1
    /\ \E i \in DOMAIN doors : doors[i].isOpen /\ ENABLED handleDoorClick(i)

\* C10: under every config, a fresh manual board and the board of every batch
\* trial have doorCount doors of which exactly prizeCount hold a prize, and a
\* fresh manual board has no door open and none selected.
C10_BoardsHaveConfiguredPrizes ==
    /\ gameState = "initial"
       => /\ DOMAIN doors = Indices(config.numberOfDoors)
          /\ Cardinality(Prizes(doors)) = config.numberOfPrizes
          /\ Cardinality(DOMAIN doors \ Prizes(doors)) =
                config.numberOfDoors - config.numberOfPrizes
          /\ Open(doors) = {}
          /\ Selected(doors) = {}
    /\ \A r \in DOMAIN runs :
          runs[r].pc = "scored"
          => /\ DOMAIN trial.currentDoors = Indices(config.numberOfDoors)
             /\ Cardinality({k \in DOMAIN trial.currentDoors : trial.currentDoors[k]})
                  = config.numberOfPrizes

C10_Witness ==
    /\ config = [numberOfDoors |-> 4, numberOfPrizes |-> 2]
    /\ gameState = "initial"
    /\ \E r \in DOMAIN runs : runs[r].pc = "scored"

\* The rules of the configuration check in their order, each with the test
\* that makes it fail; a comparison with NaN is false.
RuleNames ==
    <<"NotANumber", "TooFewDoors", "TooFewPrizes", "TooManyPrizes",
      "InsufficientSwitchChoice">>

RuleFails(k, d, p) ==
    IF k = 1 THEN d.nan \/ p.nan
    ELSE /\ ~d.nan
         /\ ~p.nan
         /\ IF k = 2 THEN d.val < 3
            ELSE IF k = 3 THEN p.val < 1
            ELSE IF k = 4 THEN p.val >= d.val
            ELSE d.val - p.val < 2

FirstFailure(d, p) ==
    LET failing == {k \in DOMAIN RuleNames : RuleFails(k, d, p)}
    IN  IF failing = {} THEN "" ELSE RuleNames[Min(failing)]

\* C11: an apply attempt reports the first rule, in the order NotANumber,
\* TooFewDoors, TooFewPrizes, TooManyPrizes, InsufficientSwitchChoice, that
\* the two inputs fail, and accepts them when none fails; 3 doors with 1
\* prize are accepted, no accepted config has fewer doors or fewer prizes,
\* and 3 doors with 2 prizes fail with InsufficientSwitchChoice.
C11_FirstFailingRuleWins ==
    [][handleApplyConfig
       => LET d == ParseInt(tempConfig.doors)
              p == ParseInt(tempConfig.prizes)
          IN  /\ error' = FirstFailure(d, p)
              /\ error' = ""
                 => /\ config' = [numberOfDoors |-> d.val, numberOfPrizes |-> p.val]
                    /\ d.val >= 3
                    /\ p.val >= 1
              /\ (~d.nan /\ ~p.nan /\ d.val = 3 /\ p.val = 1) => error' = ""
              /\ (~d.nan /\ ~p.nan /\ d.val = 3 /\ p.val = 2)
                 => error' = "InsufficientSwitchChoice"]_vars

\* An attempt that fails two rules (3 doors, 3 prizes) has been answered.
C11_Witness ==
    /\ tempConfig = [doors |-> toString(3), prizes |-> toString(3)]
    /\ error = "TooManyPrizes"

\* C12: the active config starts as 3 doors, 1 prize and changes only in an
\* apply attempt; an attempt whose inputs pass the check makes them the
\* active config, and a rejected attempt sets the error and leaves the
\* active config, the manual game, the manual stats and all of the batch
\* simulator as they are.
C12_ConfigIsLastValidInput ==
    /\ config = [numberOfDoors |-> 3, numberOfPrizes |-> 1]
    /\ [][config' # config => handleApplyConfig]_vars
    /\ [][handleApplyConfig
          => LET d == ParseInt(tempConfig.doors)
                 p == ParseInt(tempConfig.prizes)
             IN  IF FirstFailure(d, p) = ""
                 THEN config' = [numberOfDoors |-> d.val, numberOfPrizes |-> p.val]
                 ELSE /\ error' # ""
                      /\ UNCHANGED <<config, tempConfig, manualVars, inputVars,
                                     batchVars>>]_vars

\* The latest attempt was rejected, under a config that replaced the first
\* one, with a manual game scored and a batch run reporting.
C12_Witness ==
    /\ error # ""
    /\ config = [numberOfDoors |-> 4, numberOfPrizes |-> 2]
    /\ manualStats.total = 1
    /\ StayTotal > 0

\* C13: at every reporting interval (a trial i that is a multiple of
\* ceil(simulations / 100)) the loop gives up control before the next trial,
\* so that the stop button can be served; at every speed, the fastest included.
C13_LoopYieldsAtEveryReport ==
    [][\A r \in DOMAIN runs :
          (Report(r) /\ runs[r].i % Ceil(runs[r].simulations, ProgressSteps) = 0)
          => active' = 0]_vars

\* C14: with the stop button never pressed, every started run ends; when it
\* ends it has performed exactly its simulations trials, the totals of both
\* strategies equal that number, progress is 100 and isSimulating is false,
\* and this is the state it leaves behind.
C14_RunPerformsAllTrials ==
    /\ [][\A r \in DOMAIN runs :
             FinishRun(r)
             => /\ Completed(runs'[r]) = runs[r].simulations
                /\ StayTotal' = runs[r].simulations
                /\ SwitchTotal' = runs[r].simulations
                /\ progress' = Full
                /\ isSimulating' = FALSE]_vars
    /\ [](\A r \in DOMAIN runs :
             (r = Len(runs) /\ runs[r].pc = "done")
             => /\ StayTotal = runs[r].simulations
                /\ SwitchTotal = runs[r].simulations
                /\ progress = Full
                /\ isSimulating = FALSE)
    /\ \A r \in 1..MaxRuns :
          (r \in DOMAIN runs) ~> (r \in DOMAIN runs /\ runs[r].pc = "done")

\* Two runs of two trials each have ended, the second at full speed.
C14_Witness ==
    /\ Len(runs) = 2
    /\ \A r \in DOMAIN runs : runs[r].pc = "done" /\ runs[r].simulations = 2
    /\ speed = MaxSpeed
    /\ StayTotal = 2

\* C15: the trace never holds more than 300 markers; it changes only when a
\* run starts (emptied) and at a trial i with i mod ceil(simulations / 300)
\* = 0, where the stay outcome of that trial ('win' iff the picked door has a
\* prize) is appended, and the oldest marker is dropped if 300 are held.
C15_TraceIsBoundedAndSampled ==
    /\ [](Len(animationData) <= 300)
    /\ [][animationData' # animationData
          => (animationData' = <<>> \/ \E r \in DOMAIN runs : Report(r))]_vars
    /\ [][\A r \in DOMAIN runs :
             Report(r)
             => LET i == runs[r].i
                    every == Ceil(runs[r].simulations, 300)
                    marker == IF trial.currentDoors[trial.playerChoice]
                              THEN "win" ELSE "loss"
                IN  animationData' =
                      IF i % every # 0 THEN animationData
                      ELSE IF Len(animationData) < 300
                      THEN Append(animationData, marker)
                      ELSE Append(Tail(animationData), marker)]_vars

\* The trace is full, with both markers in it, while a run of 600 trials is
\* at a trial that is sampled.
C15_Witness ==
    /\ Len(animationData) = 300
    /\ animationData[1] # animationData[2]
    /\ \E r \in DOMAIN runs :
          /\ runs[r].pc = "scored"
          /\ runs[r].simulations = 600
          /\ runs[r].i % 2 = 0

\* C16: a new game can be asked for only in 'finished'; it puts a fresh board
\* of the same config in place (doorCount doors, prizeCount prizes, none open
\* or selected) and sets gameState to 'initial', with no earlier update left
\* to be rendered over it, without touching manualStats.
\* While the config stays the same no manual counter ever decreases; the
\* counters go back to zero only when another valid config is applied.
C16_ResetKeepsManualStats ==
    /\ [](ENABLED resetManualGame => gameState = "finished")
    /\ [][resetManualGame
          => /\ gameState = "finished"
             /\ gameState' = "initial"
             /\ config' = config
             /\ DOMAIN doors' = Indices(config.numberOfDoors)
             /\ Cardinality(Prizes(doors')) = config.numberOfPrizes
             /\ Open(doors') = {}
             /\ Selected(doors') = {}
             /\ hostUpdates' = NoUpdates
             /\ manualStats' = manualStats]_vars
    /\ [][config' = config
          => /\ manualStats'.total >= manualStats.total
             /\ manualStats'.stayWins >= manualStats.stayWins
             /\ manualStats'.switchWins >= manualStats.switchWins]_vars
    /\ [][manualStats' # manualStats /\ manualStats' = ZeroManualStats
          => /\ handleApplyConfig
             /\ config' # config
             /\ config' \in ValidConfigs]_vars

\* A game after the first one is about to begin and the first one's win is
\* still counted.
C16_Witness ==
    /\ gameState = "initial"
    /\ manualStats.total = 1
    /\ manualStats.stayWins + manualStats.switchWins = 1

\* C17: a run executes a trial only if stop() was never called on it, also
\* after start() was called again while it was suspended in its sleep, and
\* only if every other run has ended or has been stopped: at most one loop
\* is executing trials.
C17_OnlyOneLoopRunsTrials ==
    [][\A r \in DOMAIN runs :
          RunTrial(r)
          => /\ ~runs[r].stopRequested
             /\ \A q \in DOMAIN runs \ {r} :
                   runs[q].pc = "done" \/ runs[q].stopRequested]_vars

\* C18: a host timer is pending, or its callback's updates wait to be
\* rendered, exactly when gameState is 'picked', and only one; the timer's
\* callback therefore runs only from 'picked', which its render turns into
\* 'revealed'; and a new game begins with no timer pending, so that no timer
\* of an earlier game can act on it.
C18_TimerPendingIffPicked ==
    /\ []((hostTimer > 0 \/ hostUpdates # NoUpdates) <=> (gameState = "picked"))
    /\ [](hostTimer <= 1 /\ (hostTimer = 0 \/ hostUpdates = NoUpdates))
    /\ [][HostTimeout => gameState = "picked"]_vars
    /\ [][(Render /\ hostUpdates # NoUpdates)
          => (gameState = "picked" /\ gameState' = "revealed")]_vars
    /\ [][resetManualGame
          => (hostTimer = 0 /\ hostTimer' = 0 /\ hostUpdates = NoUpdates)]_vars

\* C19: the door flags agree with gameState in every state: 'initial', no
\* door selected and none open; 'picked', exactly one selected and none
\* open; 'revealed', exactly one selected and exactly one other door open;
\* 'finished', every door open and exactly one selected.  The selected door
\* of 'revealed' is the one picked, and the hasPrize flags of a board stay
\* as they are until a new board replaces it (the mount effect, a new game or
\* a new config).
C19_DoorFlagsAgreeWithState ==
    /\ [](/\ gameState = "initial"
             => (Selected(doors) = {} /\ Open(doors) = {})
          /\ gameState = "picked"
             => (Cardinality(Selected(doors)) = 1 /\ Open(doors) = {})
          /\ gameState = "revealed"
             => /\ Cardinality(Selected(doors)) = 1
                /\ Cardinality(Open(doors)) = 1
                /\ Selected(doors) \cap Open(doors) = {}
          /\ gameState = "finished"
             => /\ Open(doors) = DOMAIN doors
                /\ Cardinality(Selected(doors)) = 1)
    /\ [][(gameState = "picked" /\ gameState' = "revealed")
          => Selected(doors') = Selected(doors)]_vars
    /\ [][(config' = config /\ ~resetManualGame
           /\ ~(Render /\ mountEffect = "flushing"))
          => (DOMAIN doors' = DOMAIN doors /\ Prizes(doors') = Prizes(doors))]_vars

====
